---- MODULE Spec2Model ----
(***************************************************************************)
(* NMEA GPS driver (gps_nmea.c): the byte-at-a-time sentence parser        *)
(* gpsNewFrameNMEA with its field decoder grab_fields, the command sender  *)
(* nmeaTransmitAutoConfigCommands, the configuration and baud sequencers   *)
(* and the per-tick entry point gpsHandleNMEA.                             *)
(*                                                                         *)
(* Characters are their ASCII codes.  uint32_t values are pairs of 16-bit  *)
(* limbs [hi, lo] so that the 32-bit wrap of the C arithmetic is kept.     *)
(***************************************************************************)
EXTENDS Integers, Sequences, FiniteSets, TLC

VARIABLES
    nmea,       \* the static locals of gpsNewFrameNMEA
    gpsSol,     \* the shared navigation solution
    gpsStats,   \* the shared statistics counters
    gpsState,   \* the driver state record
    gpsConfig,  \* the active receiver configuration
    now,        \* millis()
    port,       \* the serial transport: transmit occupancy, baud, receive queue
    inp,        \* the byte stream offered to the parser (environment)
    obs,        \* observations of the sentence being fed (history)
    tick,       \* observations of the last driver tick (history)
    grab        \* the input and result of one grab_fields call

vars == <<nmea, gpsSol, gpsStats, gpsState, gpsConfig, now, port, inp, obs, tick, grab>>

----------------------------------------------------------------------------
(* Program constants *)

NO_FRAME == 0
FRAME_GGA == 1
FRAME_RMC == 2
GPS_NMEA_CONFIG_DELAY == 300
GPS_BAUD_CHANGE_DELAY == 200
GPS_BAUDRATE_COUNT == 6
NMEA_BUFFER_SIZE == 16
GRAB_LIMIT == 15
KNOTS_NUM == 5144
KNOTS_DEN == 1000

ChNul == 0
ChLF == 10
ChCR == 13
ChDollar == 36
ChStar == 42
ChComma == 44
ChDot == 46
Ch0 == 48
Ch9 == 57
ChA == 65
ChS == 83
ChW == 87

GPS_NO_FIX == 0
GPS_FIX_3D == 2

(* Values of the collaborators that live outside this file *)
GPS_HDOP_TO_EPH_MULTIPLIER == 2
GPS_EPE_MAX == 9999

----------------------------------------------------------------------------
(* Fixed-width arithmetic *)

RECURSIVE XorBits(_, _, _)
XorBits(a, b, n) ==
    IF n = 0 THEN 0
    ELSE (((a % 2) + (b % 2)) % 2) + (2 * XorBits(a \div 2, b \div 2, n - 1))

XorTable == [a \in 0 .. 255 |-> [b \in 0 .. 255 |-> XorBits(a, b, 8)]]

\* uint8_t a ^ b
Xor8(a, b) == XorTable[a % 256][b % 256]

U32(n) == [hi |-> (n \div 65536), lo |-> (n % 65536)]

\* tmp * 10 + d in uint32_t
MulAdd32(t, k, d) ==
    LET l == (t.lo * k) + d
    IN [hi |-> ((t.hi * k) + (l \div 65536)) % 65536, lo |-> (l % 65536)]

\* t / k in uint32_t, for 0 < k < 32768
Div32(t, k) ==
    LET r == t.hi % k
    IN [hi |-> (t.hi \div k), lo |-> (((r * 65536) + t.lo) \div k)]

IsDigit(c) == c >= Ch0 /\ c <= Ch9

----------------------------------------------------------------------------
(* grab_fields: the field decoder.  src is the caller's buffer, a function *)
(* from 0..cap-1 to bytes; the result carries the value, the buffer after  *)
(* the in-place truncation, and whether an index outside the buffer was    *)
(* touched.                                                                *)

Rd(src, i) == IF i \in DOMAIN src THEN src[i] ELSE ChNul

Wr0(src, i) == IF i \in DOMAIN src THEN [src EXCEPT ![i] = ChNul] ELSE src

\* src[i + mult] = 0, i being the index after the point
grab_truncate(src, i, mult) == Wr0(src, i + mult)

\* if (i >= 15) return 0
grab_limit(i) == i >= GRAB_LIMIT

RECURSIVE grab_loop(_, _, _, _, _)
grab_loop(src, mult, i, tmp, oob) ==
    IF Rd(src, i) = ChNul
    THEN [val |-> tmp, src |-> src, oob |-> oob \/ i \notin DOMAIN src]
    ELSE
        LET dot == src[i] = ChDot
            i1 == IF dot THEN i + 1 ELSE i
        IN  IF dot /\ mult = 0
            THEN [val |-> tmp, src |-> src, oob |-> oob]
            ELSE
                LET src1 == IF dot THEN grab_truncate(src, i1, mult) ELSE src
                    oob1 == oob \/ (dot /\ (i1 + mult) \notin DOMAIN src)
                                \/ i1 \notin DOMAIN src
                    c == Rd(src1, i1)
                    t1 == MulAdd32(tmp, 10, IF IsDigit(c) THEN c - Ch0 ELSE 0)
                IN  IF grab_limit(i1)
                    THEN [val |-> U32(0), src |-> src1, oob |-> oob1]
                    ELSE grab_loop(src1, mult, i1 + 1, t1, oob1)

grab_fields(src, mult) == grab_loop(src, mult, 0, U32(0), FALSE)

----------------------------------------------------------------------------
(* C strings in a buffer *)

RECURSIVE CStrFrom(_, _)
CStrFrom(buf, i) ==
    IF Rd(buf, i) = ChNul THEN <<>> ELSE <<buf[i]>> \o CStrFrom(buf, i + 1)

\* the characters before the first NUL
CStr(buf) == CStrFrom(buf, 0)

\* strcmp(string, lit) == 0
StrEq(buf, lit) == CStr(buf) = lit

ID_GPGGA == <<71, 80, 71, 71, 65>>
ID_GNGGA == <<71, 78, 71, 71, 65>>
ID_GPRMC == <<71, 80, 82, 77, 67>>
ID_GNRMC == <<71, 78, 82, 77, 67>>

----------------------------------------------------------------------------
(* GPS_coord_to_degrees (common/gps_conversion): "ddmm.mmmm" to degrees in *)
(* units of 1e-7 degree.                                                   *)

RECURSIVE DigitRun(_)
DigitRun(q) ==
    IF q = <<>> \/ ~IsDigit(Head(q)) THEN <<>> ELSE <<Head(q)>> \o DigitRun(Tail(q))

RECURSIVE DigitsVal(_)
DigitsVal(q) ==
    IF q = <<>> THEN 0 ELSE (DigitsVal(SubSeq(q, 1, Len(q) - 1)) * 10) + (q[Len(q)] - Ch0)

\* up to four fractional digits, read as ten-thousandths of a minute
FracMinutes(q) ==
    LET d == DigitRun(q)
        k == IF Len(d) > 4 THEN 4 ELSE Len(d)
        pad == CASE k = 0 -> 1 [] k = 1 -> 1000 [] k = 2 -> 100 [] k = 3 -> 10 [] OTHER -> 1
    IN  DigitsVal(SubSeq(d, 1, k)) * pad

GPS_coord_to_degrees(buf) ==
    LET str == CStr(buf)
        whole == DigitRun(str)
        n == Len(whole)
        deg == IF n > 2 THEN DigitsVal(SubSeq(whole, 1, n - 2)) ELSE 0
        min == IF n > 2 THEN DigitsVal(SubSeq(whole, n - 1, n)) ELSE DigitsVal(whole)
        rest == SubSeq(str, n + 1, Len(str))
        frac == IF rest # <<>> /\ Head(rest) = ChDot THEN FracMinutes(Tail(rest)) ELSE 0
    IN  (deg * 10000000) + (((min * 1000000) + (frac * 100)) \div 6)

\* gpsConstrainHDOP, gpsConstrainEPE (io/gps): clamp to the largest reportable value
gpsConstrainHDOP(h) == IF h > GPS_EPE_MAX THEN GPS_EPE_MAX ELSE h

gpsConstrainEPE(e) == IF e > GPS_EPE_MAX THEN GPS_EPE_MAX ELSE e

----------------------------------------------------------------------------
(* gpsNewFrameNMEA.  p is the record of its static locals:                 *)
(*   param, offset, parity, string, checksum_param, gps_frame, gps_Msg     *)

gps_Msg0 ==
    [fix |-> FALSE, latitude |-> 0, longitude |-> 0, numSat |-> 0,
     altitude |-> 0, speed |-> 0, ground_course |-> 0, hdop |-> 0]

nmea0 ==
    [param |-> 0, offset |-> 0, parity |-> 0,
     string |-> [i \in 0 .. (NMEA_BUFFER_SIZE - 1) |-> ChNul],
     checksum_param |-> 0, gps_frame |-> NO_FRAME, gps_Msg |-> gps_Msg0]

gpsSol0 ==
    [fixType |-> GPS_NO_FIX, numSat |-> 0, lat |-> 0, lon |-> 0, alt |-> 0,
     hdop |-> GPS_EPE_MAX, eph |-> GPS_EPE_MAX, epv |-> GPS_EPE_MAX,
     groundSpeed |-> 0, groundCourse |-> 0,
     validEPE |-> 0, validVelNE |-> 0, validVelD |-> 0, gpsHeartbeat |-> FALSE]

gpsStats0 == [packetCount |-> 0, errors |-> 0]

\* case '$'
nmeaStart(p) == [p EXCEPT !.param = 0, !.offset = 0, !.parity = 0]

\* frame identification, done when param == 0
nmeaIdentify(str) ==
    IF StrEq(str, ID_GPGGA) \/ StrEq(str, ID_GNGGA) THEN FRAME_GGA
    ELSE IF StrEq(str, ID_GPRMC) \/ StrEq(str, ID_GNRMC) THEN FRAME_RMC
    ELSE NO_FRAME

\* (uint16_t)(grab_fields(string, 1) * 10)
Times10u16(v) == (v.lo * 10) % 65536

\* (uint16_t)((grab_fields(string, 1) * 5144L) / 1000L), long being 32 bits wide
KnotsToCms(v) == Div32(MulAdd32(v, KNOTS_NUM, 0), KNOTS_DEN).lo

\* gps_Msg.numSat = grab_fields(string, 0)
nmeaSetNumSat(g, m) == [str |-> g.src, msg |-> [m EXCEPT !.numSat = (g.val.lo % 256)]]

\* gps_Msg.hdop = grab_fields(string, 1) * 10
nmeaSetHdop(g, m) == [str |-> g.src, msg |-> [m EXCEPT !.hdop = Times10u16(g.val)]]

\* gps_Msg.altitude = grab_fields(string, 1) * 10
nmeaSetAltitude(g, m) == [str |-> g.src, msg |-> [m EXCEPT !.altitude = Times10u16(g.val)]]

\* gps_Msg.speed = (grab_fields(string, 1) * 5144L) / 1000L
nmeaSetSpeed(g, m) == [str |-> g.src, msg |-> [m EXCEPT !.speed = KnotsToCms(g.val)]]

\* gps_Msg.ground_course = grab_fields(string, 1)
nmeaSetCourse(g, m) == [str |-> g.src, msg |-> [m EXCEPT !.ground_course = g.val.lo]]

\* switch (gps_frame) { case FRAME_GGA: switch (param) ... }
nmeaFieldGGA(param, str, m) ==
    CASE param = 2 -> [str |-> str, msg |-> [m EXCEPT !.latitude = GPS_coord_to_degrees(str)]]
      [] param = 3 -> [str |-> str,
                       msg |-> IF str[0] = ChS THEN [m EXCEPT !.latitude = (0 - m.latitude)] ELSE m]
      [] param = 4 -> [str |-> str, msg |-> [m EXCEPT !.longitude = GPS_coord_to_degrees(str)]]
      [] param = 5 -> [str |-> str,
                       msg |-> IF str[0] = ChW THEN [m EXCEPT !.longitude = (0 - m.longitude)] ELSE m]
      [] param = 6 -> [str |-> str, msg |-> [m EXCEPT !.fix = (str[0] > Ch0)]]
      [] param = 7 -> nmeaSetNumSat(grab_fields(str, 0), m)
      [] param = 8 -> nmeaSetHdop(grab_fields(str, 1), m)
      [] param = 9 -> nmeaSetAltitude(grab_fields(str, 1), m)
      [] OTHER -> [str |-> str, msg |-> m]

\* case FRAME_RMC: switch (param) ...
nmeaFieldRMC(param, str, m) ==
    CASE param = 7 -> nmeaSetSpeed(grab_fields(str, 1), m)
      [] param = 8 -> nmeaSetCourse(grab_fields(str, 1), m)
      [] OTHER -> [str |-> str, msg |-> m]

\* param++; offset = 0; if (c == '*') checksum_param = 1; else parity ^= c;
nmeaSeparatorEnd(p, c, frame, d) ==
    [p EXCEPT !.string = d.str,
              !.gps_frame = frame,
              !.gps_Msg = d.msg,
              !.param = (p.param + 1) % 256,
              !.offset = 0,
              !.checksum_param = IF c = ChStar THEN 1 ELSE p.checksum_param,
              !.parity = IF c = ChStar THEN p.parity ELSE Xor8(p.parity, c)]

\* switch (gps_frame)
nmeaSeparatorField(p, c, str, frame) ==
    nmeaSeparatorEnd(p, c, frame,
        CASE frame = FRAME_GGA -> nmeaFieldGGA(p.param, str, p.gps_Msg)
          [] frame = FRAME_RMC -> nmeaFieldRMC(p.param, str, p.gps_Msg)
          [] OTHER -> [str |-> str, msg |-> p.gps_Msg])

\* if (param == 0) { gps_frame = NO_FRAME; if (strcmp(...) == 0) gps_frame = ... }
nmeaSeparatorFrame(p, c, str) ==
    nmeaSeparatorField(p, c, str, IF p.param = 0 THEN nmeaIdentify(str) ELSE p.gps_frame)

\* case ',': case '*': string[offset] = 0
nmeaSeparator(p, c) == nmeaSeparatorFrame(p, c, [p.string EXCEPT ![p.offset] = ChNul])

\* (c >= 'A') ? c - 'A' + 10 : c - '0'
HexVal(c) == IF c >= ChA THEN (c - ChA) + 10 ELSE c - Ch0

\* uint8_t checksum = 16 * hex(string[0]) + hex(string[1])
nmeaChecksum(str) == ((16 * HexVal(str[0])) + HexVal(str[1])) % 256

\* case FRAME_GGA of the commit
nmeaCommitGGA(sol, m) ==
    LET s1 == [sol EXCEPT !.numSat = m.numSat]
        s2 == IF m.fix
              THEN [s1 EXCEPT !.fixType = GPS_FIX_3D,
                              !.lat = m.latitude,
                              !.lon = m.longitude,
                              !.alt = m.altitude,
                              !.hdop = gpsConstrainHDOP(m.hdop),
                              !.eph = gpsConstrainEPE(m.hdop * GPS_HDOP_TO_EPH_MULTIPLIER),
                              !.epv = gpsConstrainEPE(m.hdop * GPS_HDOP_TO_EPH_MULTIPLIER),
                              !.validEPE = 0]
              ELSE [s1 EXCEPT !.fixType = GPS_NO_FIX]
    IN  [s2 EXCEPT !.validVelNE = 0, !.validVelD = 0]

nmeaCommitRMC_wrong(sol, m) ==
    [sol EXCEPT !.groundSpeed = m.speed, !.groundCourse = m.ground_course,
                !.fixType = GPS_FIX_3D]

\* case FRAME_RMC of the commit
nmeaCommitRMC(sol, m) ==
    [sol EXCEPT !.groundSpeed = m.speed, !.groundCourse = m.ground_course]

\* case '\r': case '\n'.  s is [p, sol, stats]
nmeaTerminator(s) ==
    LET p == s.p
        p1 == [p EXCEPT !.checksum_param = 0]
    IN  IF p.checksum_param = 0
        THEN [p |-> p1, sol |-> s.sol, stats |-> s.stats, frameOK |-> FALSE]
        ELSE IF nmeaChecksum(p.string) = p.parity
        THEN [p |-> p1,
              sol |-> CASE p.gps_frame = FRAME_GGA -> nmeaCommitGGA(s.sol, p.gps_Msg)
                        [] p.gps_frame = FRAME_RMC -> nmeaCommitRMC(s.sol, p.gps_Msg)
                        [] OTHER -> s.sol,
              stats |-> [s.stats EXCEPT !.packetCount = @ + 1],
              frameOK |-> (p.gps_frame = FRAME_GGA)]
        ELSE [p |-> p1, sol |-> s.sol,
              stats |-> [s.stats EXCEPT !.errors = @ + 1], frameOK |-> FALSE]

\* default:
nmeaDefault(p, c) ==
    IF p.offset < NMEA_BUFFER_SIZE - 1
    THEN [p EXCEPT !.string = [p.string EXCEPT ![p.offset] = c],
                   !.offset = p.offset + 1,
                   !.parity = IF p.checksum_param = 0 THEN Xor8(p.parity, c) ELSE p.parity]
    ELSE p

gpsNewFrameNMEA(s, c) ==
    CASE c = ChDollar ->
            [p |-> nmeaStart(s.p), sol |-> s.sol, stats |-> s.stats, frameOK |-> FALSE]
      [] c = ChComma \/ c = ChStar ->
            [p |-> nmeaSeparator(s.p, c), sol |-> s.sol, stats |-> s.stats, frameOK |-> FALSE]
      [] c = ChCR \/ c = ChLF -> nmeaTerminator(s)
      [] OTHER ->
            [p |-> nmeaDefault(s.p, c), sol |-> s.sol, stats |-> s.stats, frameOK |-> FALSE]

\* if (gpsNewFrameNMEA(newChar)) { gpsHeartbeat = !gpsHeartbeat; validVelNE = 0; ... }
gpsReceiveNewFrame(r) ==
    [p |-> r.p,
     sol |-> IF r.frameOK
             THEN [r.sol EXCEPT !.gpsHeartbeat = ~r.sol.gpsHeartbeat,
                                !.validVelNE = 0, !.validVelD = 0]
             ELSE r.sol,
     stats |-> r.stats,
     frameOK |-> r.frameOK]

\* the body of the loop of gpsReceiveData: one byte read and parsed
gpsReceiveByte(s, c) == gpsReceiveNewFrame(gpsNewFrameNMEA(s, c))


----------------------------------------------------------------------------
(* The byte streams offered to the parser: sentences built from fields.    *)

\* the number of pieces (sentences, whole or truncated) in one stream
MaxPieces == 2

RECURSIVE JoinFields(_)
JoinFields(fs) ==
    IF Len(fs) = 1 THEN fs[1]
    ELSE (JoinFields(SubSeq(fs, 1, Len(fs) - 1)) \o <<ChComma>>) \o fs[Len(fs)]

RECURSIVE XorUpTo(_, _)
XorUpTo(q, n) == IF n = 0 THEN 0 ELSE Xor8(XorUpTo(q, n - 1), q[n])

\* the exclusive-or of all bytes of q
XorAll(q) == XorUpTo(q, Len(q))

HexChar(n) == IF n < 10 THEN Ch0 + n ELSE ChA + (n - 10)

HexPair(x) == <<HexChar(x \div 16), HexChar(x % 16)>>

\* '$' body '*' hh CR LF
Framed(body, hh) == (((<<ChDollar>> \o body) \o <<ChStar>>) \o hh) \o <<ChCR, ChLF>>

\* "GPGGA,1,4807.038,N,01131.000,E,1,08,0.9,545.4,M,,M,,"
FieldsGGA1 ==
    << ID_GPGGA, <<49>>, <<52, 56, 48, 55, 46, 48, 51, 56>>, <<78>>,
       <<48, 49, 49, 51, 49, 46, 48, 48, 48>>, <<69>>, <<49>>, <<48, 56>>,
       <<48, 46, 57>>, <<53, 52, 53, 46, 52>>, <<77>>, <<>>, <<77>>, <<>>, <<>> >>

\* "GNGGA,1,2503.500,S,05830.250,W,0,03,2.1,100.0,M,,M,," (no fix)
FieldsGGA2 ==
    << ID_GNGGA, <<49>>, <<50, 53, 48, 51, 46, 53, 48, 48>>, <<83>>,
       <<48, 53, 56, 51, 48, 46, 50, 53, 48>>, <<87>>, <<48>>, <<48, 51>>,
       <<50, 46, 49>>, <<49, 48, 48, 46, 48>>, <<77>>, <<>>, <<77>>, <<>>, <<>> >>

\* "GPGGA,1,2503.500,S,05830.250,W,1,11,1.5,100.0,M,,M,," (sent with a wrong checksum)
FieldsGGA3 ==
    << ID_GPGGA, <<49>>, <<50, 53, 48, 51, 46, 53, 48, 48>>, <<83>>,
       <<48, 53, 56, 51, 48, 46, 50, 53, 48>>, <<87>>, <<49>>, <<49, 49>>,
       <<49, 46, 53>>, <<49, 48, 48, 46, 48>>, <<77>>, <<>>, <<77>>, <<>>, <<>> >>

\* "GPRMC,1,A,4807.038,N,01131.000,E,022.4,084.4,230394,,"
FieldsRMC1 ==
    << ID_GPRMC, <<49>>, <<65>>, <<52, 56, 48, 55, 46, 48, 51, 56>>, <<78>>,
       <<48, 49, 49, 51, 49, 46, 48, 48, 48>>, <<69>>, <<48, 50, 50, 46, 52>>,
       <<48, 56, 52, 46, 52>>, <<50, 51, 48, 51, 57, 52>>, <<>>, <<>> >>

\* "GPGSV,1"
FieldsGSV1 == << <<71, 80, 71, 83, 86>>, <<49>> >>

\* "GPGGA,AAAAAAAAAAAAAAAA": a field of 16 characters
FieldsLong == << ID_GPGGA, [i \in 1 .. 16 |-> ChA] >>

\* the same with the field cut to the 15 characters the buffer keeps
FieldsLongKept == << ID_GPGGA, [i \in 1 .. 15 |-> ChA] >>

\* "GPGGA,AAAAAAAAAAAAAAAAA": a field of 17 characters
FieldsLong17 == << ID_GPGGA, [i \in 1 .. 17 |-> ChA] >>

\* a sentence with the checksum of its own bytes
Good(kind, fs) ==
    [kind |-> kind, fields |-> fs, csOK |-> TRUE,
     bytes |-> Framed(JoinFields(fs), HexPair(XorAll(JoinFields(fs))))]

\* a sentence whose checksum digits are those of other bytes
Bad(kind, fs, other) ==
    [kind |-> kind, fields |-> fs, csOK |-> (XorAll(other) = XorAll(JoinFields(fs))),
     bytes |-> Framed(JoinFields(fs), HexPair(XorAll(other)))]

Library ==
    << Good("GGA", FieldsGGA1),
       Good("GGA", FieldsGGA2),
       Good("RMC", FieldsRMC1),
       Bad("GGA", FieldsGGA3, JoinFields(FieldsGGA1)),
       Good("OTHER", FieldsGSV1),
       Bad("LONG", FieldsLong, JoinFields(FieldsLongKept)),
       \* "$00" CR LF: no identifier, no '*'
       [kind |-> "RAW", fields |-> << <<>> >>, csOK |-> FALSE,
        bytes |-> <<ChDollar, Ch0, Ch0, ChCR, ChLF>>],
       \* over-long fields in sentences that carry the checksum of all their bytes
       Good("LONGOK", FieldsLong),
       Good("LONGOK", FieldsLong17) >>

\* the bytes of the piece being fed
Cur == IF inp.id = 0 THEN <<>> ELSE Library[inp.id].bytes

inp0 == [id |-> 0, pos |-> 0, pieces |-> 0, cutUsed |-> FALSE]

obs0 ==
    [preSol |-> gpsSol0, preStats |-> gpsStats0, frames |-> 0, frameAt |-> 0,
     prevCut |-> FALSE, startCap |-> 0, preMsg |-> gps_Msg0]

----------------------------------------------------------------------------
(* The driver state outside the parser *)

gpsState0 ==
    [state |-> "INITIALIZING", lastStateSwitchMs |-> 0, autoConfigStep |-> 0,
     autoConfigPosition |-> 0, autoBaudrateIndex |-> 0, baudrateIndex |-> 0,
     hasPort |-> TRUE]

gpsConfig0 == [autoBaud |-> TRUE, autoConfig |-> TRUE, provider |-> "NMEA"]

port0 == [txUsed |-> 0, baud |-> 0, rx |-> <<>>]

noSender == [called |-> FALSE, ret |-> FALSE, buf |-> <<>>]

tick0 ==
    [n |-> 0, events |-> <<>>, fed |-> <<>>, sender |-> noSender, cmd |-> <<>>,
     arrived |-> 0, result |-> FALSE, sent |-> <<>>, bauds |-> <<>>]

grab0 ==
    [int |-> <<>>, point |-> FALSE, frac |-> <<>>, src |-> <<>>, mult |-> 0,
     done |-> FALSE, val |-> U32(0), oob |-> FALSE, buf |-> <<>>]

----------------------------------------------------------------------------
(* Spec: sentences streamed into the parser one byte at a time.  A piece   *)
(* is a library sentence; it is fed whole, or abandoned before its CR (a   *)
(* truncated sentence) when the next piece begins; a stream holds at most  *)
(* one truncated sentence.                                                 *)

StartPiece(i, cut) ==
    /\ inp' = [id |-> i, pos |-> 0, pieces |-> inp.pieces + 1,
               cutUsed |-> (inp.cutUsed \/ cut)]
    /\ obs' = [preSol |-> gpsSol, preStats |-> gpsStats, frames |-> 0, frameAt |-> 0,
               prevCut |-> cut, startCap |-> nmea.checksum_param,
               preMsg |-> nmea.gps_Msg]
    /\ UNCHANGED <<nmea, gpsSol, gpsStats, gpsState, gpsConfig, now, port, tick, grab>>

\* the next sentence begins after a complete one (or at the start)
Begin ==
    /\ inp.pieces < MaxPieces
    /\ inp.pos = Len(Cur)
    /\ \E i \in 1 .. Len(Library) : StartPiece(i, FALSE)

\* the sentence being fed is abandoned before its CR and the next begins
Cut ==
    /\ inp.pieces < MaxPieces
    /\ ~inp.cutUsed
    /\ inp.id # 0
    /\ inp.pos >= 1
    /\ inp.pos <= Len(Cur) - 2
    /\ \E i \in 1 .. Len(Library) : StartPiece(i, TRUE)

\* one byte goes through gpsReceiveData's loop body
Feed ==
    /\ inp.id # 0
    /\ inp.pos < Len(Cur)
    /\ \E r \in {gpsReceiveByte([p |-> nmea, sol |-> gpsSol, stats |-> gpsStats],
                                  Cur[inp.pos + 1])} :
           /\ nmea' = r.p
           /\ gpsSol' = r.sol
           /\ gpsStats' = r.stats
           /\ obs' = [obs EXCEPT !.frames = @ + (IF r.frameOK THEN 1 ELSE 0),
                                 !.frameAt = IF r.frameOK THEN inp.pos + 1 ELSE @]
    /\ inp' = [inp EXCEPT !.pos = @ + 1]
    /\ UNCHANGED <<gpsState, gpsConfig, now, port, tick, grab>>

Init ==
    /\ nmea = nmea0
    /\ gpsSol = gpsSol0
    /\ gpsStats = gpsStats0
    /\ gpsState = gpsState0
    /\ gpsConfig = gpsConfig0
    /\ now = 0
    /\ port = port0
    /\ inp = inp0
    /\ obs = obs0
    /\ tick = tick0
    /\ grab = grab0

Next == Begin \/ Cut \/ Feed

Spec == Init /\ [][Next]_vars


----------------------------------------------------------------------------
(* What a sentence says, read from its fields (field k is fs[k + 1])       *)

Buf(q) == [i \in 0 .. (NMEA_BUFFER_SIZE - 1) |-> IF i < Len(q) THEN q[i + 1] ELSE ChNul]

FieldBuf(fs, k) == IF k + 1 <= Len(fs) THEN Buf(fs[k + 1]) ELSE Buf(<<>>)

OwnGGA(fs) ==
    [fix |-> (FieldBuf(fs, 6)[0] > Ch0),
     latitude |-> IF FieldBuf(fs, 3)[0] = ChS
                  THEN 0 - GPS_coord_to_degrees(FieldBuf(fs, 2))
                  ELSE GPS_coord_to_degrees(FieldBuf(fs, 2)),
     longitude |-> IF FieldBuf(fs, 5)[0] = ChW
                   THEN 0 - GPS_coord_to_degrees(FieldBuf(fs, 4))
                   ELSE GPS_coord_to_degrees(FieldBuf(fs, 4)),
     numSat |-> grab_fields(FieldBuf(fs, 7), 0).val.lo % 256,
     hdop |-> Times10u16(grab_fields(FieldBuf(fs, 8), 1).val),
     altitude |-> Times10u16(grab_fields(FieldBuf(fs, 9), 1).val)]

OwnRMC(fs) ==
    [speed |-> KnotsToCms(grab_fields(FieldBuf(fs, 7), 1).val),
     ground_course |-> grab_fields(FieldBuf(fs, 8), 1).val.lo]

\* the solution after a sentence's own values are committed to sol
OwnCommit(L, sol) ==
    CASE L.kind = "GGA" ->
            LET o == OwnGGA(L.fields)
                c == nmeaCommitGGA(sol, [gps_Msg0 EXCEPT !.fix = o.fix, !.latitude = o.latitude,
                                            !.longitude = o.longitude, !.numSat = o.numSat,
                                            !.hdop = o.hdop, !.altitude = o.altitude])
            IN  [c EXCEPT !.gpsHeartbeat = ~sol.gpsHeartbeat]
      [] L.kind = "RMC" ->
            LET o == OwnRMC(L.fields)
            IN  [sol EXCEPT !.groundSpeed = o.speed, !.groundCourse = o.ground_course]
      [] OTHER -> sol

\* the piece being fed has been fed whole, through its LF
Complete == inp.id # 0 /\ inp.pos = Len(Cur)

\* a well-formed sentence carrying the checksum of its own bytes
WellFormed(L) == L.kind \in {"GGA", "RMC", "OTHER"} /\ L.csOK

RECURSIVE FeedAll(_, _, _)
\* the first n bytes of q through gpsReceiveData's loop, counting frame-ready signals
FeedAll(s, q, n) ==
    IF n = 0 THEN s
    ELSE LET a == FeedAll(s, q, n - 1)
             r == gpsReceiveByte([p |-> a.p, sol |-> a.sol, stats |-> a.stats], q[n])
         IN  [p |-> r.p, sol |-> r.sol, stats |-> r.stats,
              frames |-> a.frames + (IF r.frameOK THEN 1 ELSE 0)]

\* the outcome of feeding q to a freshly initialized parser
FreshParse(q, sol, stats) ==
    LET r == FeedAll([p |-> nmea0, sol |-> sol, stats |-> stats, frames |-> 0], q, Len(q))
    IN  [sol |-> r.sol, stats |-> r.stats, frames |-> r.frames]

----------------------------------------------------------------------------
(* Claims about the sentence parser                                        *)

\* C1: NavigationSolution changes only at a line-terminator byte of a sentence
\* that was itself identified as fix-data or recommended-minimum-data and whose
\* own checksum matched, and the values written are those of that sentence; no
\* value of a failed or unterminated sentence is ever written.
C1_OnlyOwnValidatedValues ==
    [][gpsSol' # gpsSol =>
          /\ inp'.id = inp.id
          /\ Cur[inp'.pos] \in {ChCR, ChLF}
          /\ Library[inp.id].kind \in {"GGA", "RMC"}
          /\ Library[inp.id].csOK
          /\ gpsSol' = OwnCommit(Library[inp.id], gpsSol)]_vars

\* C2: a complete valid sentence that follows a truncated sentence is parsed
\* exactly as by a freshly initialized parser: same counters, same committed
\* values, same frame-ready signals.
C2_Resynchronizes ==
    (Complete /\ obs.prevCut /\ WellFormed(Library[inp.id])) =>
        [sol |-> gpsSol, stats |-> gpsStats, frames |-> obs.frames]
            = FreshParse(Cur, obs.preSol, obs.preStats)

\* C3: a valid fix-data sentence with a correct checksum gives frame-ready exactly
\* once, at its CR, and afterwards NavigationSolution holds the latitude, longitude,
\* altitude, satellite count and HDOP-derived fields decoded from it.
C3_ValidGGAFrameReadyOnce ==
    (Complete /\ Library[inp.id].kind = "GGA" /\ Library[inp.id].csOK) =>
        LET o == OwnGGA(Library[inp.id].fields)
        IN  /\ obs.frames = 1
            /\ obs.frameAt = Len(Cur) - 1
            /\ gpsSol.lat = o.latitude
            /\ gpsSol.lon = o.longitude
            /\ gpsSol.alt = o.altitude
            /\ gpsSol.numSat = o.numSat
            /\ gpsSol.hdop = gpsConstrainHDOP(o.hdop)
            /\ gpsSol.eph = gpsConstrainEPE(o.hdop * GPS_HDOP_TO_EPH_MULTIPLIER)
            /\ gpsSol.epv = gpsConstrainEPE(o.hdop * GPS_HDOP_TO_EPH_MULTIPLIER)

\* C4: a sentence "$...*hh" CR LF whose digits are not the exclusive-or of its
\* bytes between '$' and '*' adds exactly one to the checksum-error counter,
\* leaves the valid-packet counter and NavigationSolution as they were and gives
\* no frame-ready.
C4_BadChecksumCountedOnce ==
    (Complete /\ Library[inp.id].kind \in {"GGA", "RMC", "OTHER", "LONG"}
              /\ ~Library[inp.id].csOK) =>
        /\ gpsStats.errors = obs.preStats.errors + 1
        /\ gpsStats.packetCount = obs.preStats.packetCount
        /\ obs.frames = 0
        /\ gpsSol = obs.preSol

\* C5: a valid recommended-minimum-data sentence writes only ground speed and
\* ground course: on every byte of it no frame-ready is given and every other
\* field of NavigationSolution stays as before the sentence; once its checksum is
\* accepted, speed and course are the sentence's own, and otherwise unchanged.
C5_RMCWritesOnlySpeedCourse ==
    (inp.id # 0 /\ Library[inp.id].kind = "RMC" /\ Library[inp.id].csOK) =>
        /\ obs.frames = 0
        /\ [gpsSol EXCEPT !.groundSpeed = 0, !.groundCourse = 0]
              = [obs.preSol EXCEPT !.groundSpeed = 0, !.groundCourse = 0]
        /\ (gpsStats.packetCount = obs.preStats.packetCount + 1) =>
              /\ gpsSol.groundSpeed = OwnRMC(Library[inp.id].fields).speed
              /\ gpsSol.groundCourse = OwnRMC(Library[inp.id].fields).ground_course
        /\ (gpsStats.packetCount = obs.preStats.packetCount) =>
              /\ gpsSol.groundSpeed = obs.preSol.groundSpeed
              /\ gpsSol.groundCourse = obs.preSol.groundCourse
        /\ gpsStats.packetCount \in {obs.preStats.packetCount, obs.preStats.packetCount + 1}
        /\ (Complete /\ obs.startCap = 0) =>
              gpsStats.packetCount = obs.preStats.packetCount + 1

\* C5 witness: a recommended-minimum-data sentence accepted after a fix-data one
C5_Witness ==
    /\ Complete
    /\ Library[inp.id].kind = "RMC"
    /\ gpsStats.packetCount = 2
    /\ gpsSol.groundSpeed = 1152
    /\ gpsSol.groundCourse = 844
    /\ gpsSol.numSat = 8
    /\ gpsSol.fixType = GPS_FIX_3D


----------------------------------------------------------------------------
(* GrabSpec: one call of grab_fields on a digit string with at most one    *)
(* decimal point, held NUL-terminated in a buffer whose remaining bytes    *)
(* are zero or stale.                                                      *)

MaxStrLen == 17
MaxFracLen == 4
MaxMult == 3
GrabCap == 24

\* the digit written at position k of a generated string
DigitAt(k, seed) == Ch0 + (((k * 7) + seed) % 10)

Digits(n, from, seed) == [k \in 1 .. n |-> DigitAt(from + k, seed)]

\* "1234.56" and "00.0"
Example1234_56 == [int |-> <<49, 50, 51, 52>>, point |-> TRUE, frac |-> <<53, 54>>]
Example00_0 == [int |-> <<48, 48>>, point |-> TRUE, frac |-> <<48>>]

GrabStrings ==
    {[int |-> Digits(n, 0, seed), point |-> FALSE, frac |-> <<>>] :
        n \in 0 .. MaxStrLen, seed \in {1, 4}}
    \cup {[int |-> Digits(n, 0, seed), point |-> TRUE, frac |-> Digits(f, n, seed)] :
        n \in 0 .. (MaxStrLen - 1), f \in 0 .. MaxFracLen, seed \in {1, 4}}
    \cup {Example1234_56, Example00_0}

GrabText(g) == (g.int \o (IF g.point THEN <<ChDot>> ELSE <<>>)) \o g.frac

\* the string, its terminator, and fill in the rest of the buffer
GrabBuffer(g, fill) ==
    LET t == GrabText(g)
    IN  [i \in 0 .. (GrabCap - 1) |->
            IF i < Len(t) THEN t[i + 1] ELSE IF i = Len(t) THEN ChNul ELSE fill]

GrabInit ==
    /\ nmea = nmea0
    /\ gpsSol = gpsSol0
    /\ gpsStats = gpsStats0
    /\ gpsState = gpsState0
    /\ gpsConfig = gpsConfig0
    /\ now = 0
    /\ port = port0
    /\ inp = inp0
    /\ obs = obs0
    /\ tick = tick0
    /\ \E g \in GrabStrings, fill \in {ChNul, Ch0 + 7}, m \in 0 .. MaxMult :
          /\ Len(GrabText(g)) <= MaxStrLen
          /\ grab = [int |-> g.int, point |-> g.point, frac |-> g.frac,
                     src |-> GrabBuffer(g, fill), mult |-> m,
                     done |-> FALSE, val |-> U32(0), oob |-> FALSE,
                     buf |-> GrabBuffer(g, fill)]

GrabCall ==
    /\ ~grab.done
    /\ LET r == grab_fields(grab.src, grab.mult)
       IN  grab' = [grab EXCEPT !.done = TRUE, !.val = r.val, !.src = r.src, !.oob = r.oob]
    /\ UNCHANGED <<nmea, gpsSol, gpsStats, gpsState, gpsConfig, now, port, inp, obs, tick>>

GrabNext == GrabCall

GrabSpec == GrabInit /\ [][GrabNext]_vars

\* the digits the claim keeps: those before the point and at most mult after it
GrabKept ==
    grab.int \o SubSeq(grab.frac, 1, IF Len(grab.frac) < grab.mult THEN Len(grab.frac) ELSE grab.mult)

GrabLen == Len(grab.int) + (IF grab.point THEN 1 ELSE 0) + Len(grab.frac)

\* C10: the result is the integer formed by the digits before the point followed by
\* at most mult digits after it, and a string of 16 or more characters yields 0.
C10_GrabFieldsValue ==
    grab.done =>
        /\ GrabLen >= 16 => grab.val = U32(0)
        /\ (GrabLen < 16 /\ Len(GrabKept) <= 9) => grab.val = U32(DigitsVal(GrabKept))


----------------------------------------------------------------------------
(* The command strings *)

\* "$PMTK251,<baud>*hh" CR LF for 115200, 57600, 38400, 19200, 9600, 4800
mtkInit_BaudData ==
    << <<36, 80, 77, 84, 75, 50, 53, 49, 44, 49, 49, 53, 50, 48, 48, 42, 49, 70, 13, 10>>,
       <<36, 80, 77, 84, 75, 50, 53, 49, 44, 53, 55, 54, 48, 48, 42, 50, 67, 13, 10>>,
       <<36, 80, 77, 84, 75, 50, 53, 49, 44, 51, 56, 52, 48, 48, 42, 50, 55, 13, 10>>,
       <<36, 80, 77, 84, 75, 50, 53, 49, 44, 49, 57, 50, 48, 48, 42, 50, 50, 13, 10>>,
       <<36, 80, 77, 84, 75, 50, 53, 49, 44, 57, 54, 48, 48, 42, 49, 55, 13, 10>>,
       <<36, 80, 77, 84, 75, 50, 53, 49, 44, 52, 56, 48, 48, 42, 49, 52, 13, 10>> >>

\* "$PSRF100,1,<baud>,8,1,0*hh" CR LF for the same rates
srfInit_BaudData ==
    << <<36, 80, 83, 82, 70, 49, 48, 48, 44, 49, 44, 49, 49, 53, 50, 48, 48, 44, 56, 44, 49, 44, 48, 42, 48, 53, 13, 10>>,
       <<36, 80, 83, 82, 70, 49, 48, 48, 44, 49, 44, 53, 55, 54, 48, 48, 44, 56, 44, 49, 44, 48, 42, 51, 54, 13, 10>>,
       <<36, 80, 83, 82, 70, 49, 48, 48, 44, 49, 44, 51, 56, 52, 48, 48, 44, 56, 44, 49, 44, 48, 42, 51, 68, 13, 10>>,
       <<36, 80, 83, 82, 70, 49, 48, 48, 44, 49, 44, 49, 57, 50, 48, 48, 44, 56, 44, 49, 44, 48, 42, 51, 56, 13, 10>>,
       <<36, 80, 83, 82, 70, 49, 48, 48, 44, 49, 44, 57, 54, 48, 48, 44, 56, 44, 49, 44, 48, 42, 48, 68, 13, 10>>,
       <<36, 80, 83, 82, 70, 49, 48, 48, 44, 49, 44, 52, 56, 48, 48, 44, 56, 44, 49, 44, 48, 42, 48, 69, 13, 10>> >>

\* "$PMTK220,200*2C" CR LF
mtkInitStr_REPORTRATE_5Hz == <<36, 80, 77, 84, 75, 50, 50, 48, 44, 50, 48, 48, 42, 50, 67, 13, 10>>

\* the same bytes as an array: sizeof counts its terminating NUL
mtkInit_REPORTRATE_5Hz == mtkInitStr_REPORTRATE_5Hz \o <<ChNul>>

\* "$PMTK300,200,0,0,0,0*2F" CR LF
mtkInitStr_UPDATERATE_5Hz == <<36, 80, 77, 84, 75, 51, 48, 48, 44, 50, 48, 48, 44, 48, 44, 48, 44, 48, 44, 48, 42, 50, 70, 13, 10>>

mtkInit_UPDATERATE_5Hz == mtkInitStr_UPDATERATE_5Hz \o <<ChNul>>

\* "$PSRF103,00,6,00,0*23" CR LF
srfInitStr_UPDATERATE_5Hz == <<36, 80, 83, 82, 70, 49, 48, 51, 44, 48, 48, 44, 54, 44, 48, 48, 44, 48, 42, 50, 51, 13, 10>>

srfInit_UPDATERATE_5Hz == srfInitStr_UPDATERATE_5Hz \o <<ChNul>>

----------------------------------------------------------------------------
(* The serial transport (drivers/serial.h) as this driver uses it: a       *)
(* transmit buffer of TxCap bytes that drains between ticks.  Every        *)
(* operation on the port is logged in w.ev, in order.                      *)
(* w is the state one tick works on:                                       *)
(*   gs, cfg, now, port, ev, p, sol, stats, fed, snd, ret                  *)

TxCap == 3

Ev(op, bytes, to) == [op |-> op, bytes |-> bytes, to |-> to]

serialTxBytesFree(pt) == TxCap - pt.txUsed

isSerialTransmitBufferEmpty(pt) == pt.txUsed = 0

serialWrite(w, b) ==
    [w EXCEPT !.port.txUsed = @ + 1, !.ev = Append(@, Ev("write", <<b>>, ""))]

serialPrint(w, str) ==
    [w EXCEPT !.port.txUsed = IF @ + Len(str) > TxCap THEN TxCap ELSE @ + Len(str),
              !.ev = Append(@, Ev("print", str, ""))]

serialSetBaudRate(w, idx) ==
    [w EXCEPT !.port.baud = idx, !.ev = Append(@, Ev("baud", <<idx>>, ""))]

\* gpsSetState (io/gps): enter a phase and record when; the per-phase cursors
\* start again at zero when the phase changes
gpsSetState(w, st) ==
    [w EXCEPT !.gs.state = st,
              !.gs.lastStateSwitchMs = w.now,
              !.gs.autoConfigStep = IF st # w.gs.state THEN 0 ELSE @,
              !.gs.autoConfigPosition = IF st # w.gs.state THEN 0 ELSE @,
              !.ev = Append(@, Ev("state", <<>>, st))]

\* gpsFinalizeChangeBaud (io/gps): negotiation is over, move to configuration
gpsFinalizeChangeBaud(w) == gpsSetState(w, "CONFIGURE")

----------------------------------------------------------------------------
(* nmeaTransmitAutoConfigCommands *)

nmeaTransmitComplete_wrong(w) ==
    gpsSetState([w EXCEPT !.gs.autoConfigStep = @ + 1], "CONFIGURE")

\* the branch taken once every byte is pushed and the transmit buffer is empty
nmeaTransmitComplete(w) ==
    gpsSetState([w EXCEPT !.gs.autoConfigStep = @ + 1, !.gs.autoConfigPosition = 0],
                "CONFIGURE")

nmeaTransmitPush_wrong(w, buf) ==
    [serialWrite(w, buf[w.gs.autoConfigPosition + 1]) EXCEPT !.gs.autoConfigPosition = @ + 2]

\* serialWrite(gpsPort, nmeaCmdBuf[autoConfigPosition]); autoConfigPosition++
nmeaTransmitPush(w, buf) ==
    [serialWrite(w, buf[w.gs.autoConfigPosition + 1]) EXCEPT !.gs.autoConfigPosition = @ + 1]

RECURSIVE nmeaTransmitAutoConfigCommands(_, _)
nmeaTransmitAutoConfigCommands(w, buf) ==
    IF serialTxBytesFree(w.port) > 0
    THEN IF w.gs.autoConfigPosition < Len(buf)
         THEN nmeaTransmitAutoConfigCommands(nmeaTransmitPush(w, buf), buf)
         ELSE IF isSerialTransmitBufferEmpty(w.port)
         THEN [nmeaTransmitComplete(w) EXCEPT !.snd = [called |-> TRUE, ret |-> TRUE, buf |-> buf]]
         ELSE [w EXCEPT !.snd = [called |-> TRUE, ret |-> FALSE, buf |-> buf]]
    ELSE [w EXCEPT !.snd = [called |-> TRUE, ret |-> FALSE, buf |-> buf]]

----------------------------------------------------------------------------
(* The configuration sequencers *)

gpsConfigureCheck_wrong(w, str) ==
    IF isSerialTransmitBufferEmpty(w.port)
    THEN gpsSetState(serialPrint(w, str), "CONFIGURE")
    ELSE w

\* case 1 and case 3 of gpsConfigure: once the transmit buffer is empty, print the
\* string and go to the next step
gpsConfigureCheck(w, str) ==
    IF isSerialTransmitBufferEmpty(w.port)
    THEN gpsSetState([serialPrint(w, str) EXCEPT !.gs.autoConfigStep = @ + 1], "CONFIGURE")
    ELSE w

gpsConfigure_wrong(w) ==
    IF w.now - w.gs.lastStateSwitchMs < GPS_BAUD_CHANGE_DELAY THEN w
    ELSE CASE w.gs.autoConfigStep = 0 ->
                 nmeaTransmitAutoConfigCommands(w, mtkInit_REPORTRATE_5Hz)
           [] w.gs.autoConfigStep = 1 -> gpsConfigureCheck(w, mtkInitStr_REPORTRATE_5Hz)
           [] w.gs.autoConfigStep = 2 ->
                 nmeaTransmitAutoConfigCommands(w, mtkInit_UPDATERATE_5Hz)
           [] w.gs.autoConfigStep = 3 -> gpsConfigureCheck(w, mtkInitStr_UPDATERATE_5Hz)
           [] OTHER -> gpsSetState(w, "RECEIVING_DATA")

gpsConfigure(w) ==
    IF w.now - w.gs.lastStateSwitchMs < GPS_NMEA_CONFIG_DELAY THEN w
    ELSE CASE w.gs.autoConfigStep = 0 ->
                 nmeaTransmitAutoConfigCommands(w, mtkInit_REPORTRATE_5Hz)
           [] w.gs.autoConfigStep = 1 -> gpsConfigureCheck(w, mtkInitStr_REPORTRATE_5Hz)
           [] w.gs.autoConfigStep = 2 ->
                 nmeaTransmitAutoConfigCommands(w, mtkInit_UPDATERATE_5Hz)
           [] w.gs.autoConfigStep = 3 -> gpsConfigureCheck(w, mtkInitStr_UPDATERATE_5Hz)
           [] OTHER -> gpsSetState(w, "RECEIVING_DATA")

gpsConfigure_PSRF(w) ==
    IF w.now - w.gs.lastStateSwitchMs < GPS_NMEA_CONFIG_DELAY THEN w
    ELSE CASE w.gs.autoConfigStep = 0 ->
                 nmeaTransmitAutoConfigCommands(w, srfInit_UPDATERATE_5Hz)
           [] OTHER -> gpsSetState(w, "RECEIVING_DATA")

----------------------------------------------------------------------------
(* gpsReceiveData, gpsInitialize, gpsChangeBaud, gpsHandleNMEA *)

\* hasNewData = true when the byte completed a frame
gpsReceiveFlag(s, r) ==
    [ret |-> (s.ret \/ r.frameOK), p |-> r.p, sol |-> r.sol, stats |-> r.stats]

\* one pass of the loop body over s = [ret (hasNewData), p, sol, stats]
gpsReceiveStep(s, c) ==
    gpsReceiveFlag(s, gpsReceiveByte([p |-> s.p, sol |-> s.sol, stats |-> s.stats], c))

RECURSIVE gpsReceiveLoop(_, _, _, _)
\* while (serialRxBytesWaiting(gpsPort)) { newChar = serialRead(gpsPort); ... }
\* over the waiting bytes rx[lo..hi] in order: the first half, then the second
gpsReceiveLoop(s, rx, lo, hi) ==
    IF lo > hi THEN s
    ELSE IF lo = hi THEN gpsReceiveStep(s, rx[lo])
    ELSE CHOOSE y \in {gpsReceiveLoop(x, rx, ((lo + hi) \div 2) + 1, hi) :
                          x \in {gpsReceiveLoop(s, rx, lo, (lo + hi) \div 2)}} : TRUE

\* the serialRead calls of the loop, in order
gpsReceiveReads(rx) == [i \in 1..Len(rx) |-> Ev("read", <<rx[i]>>, "")]

\* the port and the parser after the loop; r.ret is hasNewData
gpsReceiveEnd(w, r) ==
    [w EXCEPT !.port.rx = <<>>,
              !.p = r.p, !.sol = r.sol, !.stats = r.stats,
              !.ev = @ \o gpsReceiveReads(w.port.rx),
              !.fed = @ \o w.port.rx,
              !.ret = r.ret]

gpsReceiveData(w) ==
    IF w.gs.hasPort
    THEN gpsReceiveEnd(w, gpsReceiveLoop([ret |-> FALSE, p |-> w.p, sol |-> w.sol,
                                          stats |-> w.stats], w.port.rx, 1, Len(w.port.rx)))
    ELSE w

gpsInitialize_wrong(w) == [gpsSetState(w, "CONFIGURE") EXCEPT !.ret = FALSE]

gpsInitialize(w) == [gpsSetState(w, "CHANGE_BAUD") EXCEPT !.ret = FALSE]

BaudCommand_wrong(w) ==
    IF w.cfg.provider = "NMEA_PSRF"
    THEN srfInit_BaudData[w.gs.autoBaudrateIndex + 1]
    ELSE mtkInit_BaudData[w.gs.autoBaudrateIndex + 1]

\* the provider's command asking for the configured baud rate
BaudCommand(w) ==
    IF w.cfg.provider = "NMEA_PSRF"
    THEN srfInit_BaudData[w.gs.baudrateIndex + 1]
    ELSE mtkInit_BaudData[w.gs.baudrateIndex + 1]

gpsChangeBaudWanted_wrong(w) == w.gs.autoBaudrateIndex < GPS_BAUDRATE_COUNT

\* (autoBaud != GPS_AUTOBAUD_OFF) && (autoBaudrateIndex < GPS_BAUDRATE_COUNT)
gpsChangeBaudWanted(w) == w.cfg.autoBaud /\ w.gs.autoBaudrateIndex < GPS_BAUDRATE_COUNT

gpsChangeBaud_wrong(w) ==
    LET r == IF gpsChangeBaudWanted(w)
             THEN IF /\ w.now - w.gs.lastStateSwitchMs > GPS_BAUD_CHANGE_DELAY
                     /\ isSerialTransmitBufferEmpty(w.port)
                  THEN gpsSetState(
                           [serialPrint(serialSetBaudRate(w, w.gs.autoBaudrateIndex),
                                        BaudCommand(w))
                              EXCEPT !.gs.autoBaudrateIndex = @ + 1],
                           "CHANGE_BAUD")
                  ELSE w
             ELSE gpsFinalizeChangeBaud(w)
    IN  [r EXCEPT !.ret = FALSE]

gpsChangeBaud(w) ==
    LET r == IF gpsChangeBaudWanted(w)
             THEN IF /\ w.now - w.gs.lastStateSwitchMs >= GPS_BAUD_CHANGE_DELAY
                     /\ isSerialTransmitBufferEmpty(w.port)
                  THEN gpsSetState(
                           [serialPrint(serialSetBaudRate(w, w.gs.autoBaudrateIndex),
                                        BaudCommand(w))
                              EXCEPT !.gs.autoBaudrateIndex = @ + 1],
                           "CHANGE_BAUD")
                  ELSE w
             ELSE gpsFinalizeChangeBaud(w)
    IN  [r EXCEPT !.ret = FALSE]

\* switch (gpsState.state) of gpsHandleNMEA; w.ret holds hasNewData on entry
gpsHandlePhase(w) ==
    CASE w.gs.state = "INITIALIZING" -> gpsInitialize(w)
      [] w.gs.state = "CHANGE_BAUD" -> gpsChangeBaud(w)
      [] w.gs.state \in {"CHECK_VERSION", "CONFIGURE"} ->
            IF ~w.cfg.autoConfig
            THEN [gpsSetState(w, "RECEIVING_DATA") EXCEPT !.ret = FALSE]
            ELSE IF w.cfg.provider = "NMEA_PSRF"
            THEN [gpsConfigure_PSRF(w) EXCEPT !.ret = FALSE]
            ELSE [gpsConfigure(w) EXCEPT !.ret = FALSE]
      [] w.gs.state = "RECEIVING_DATA" -> w
      [] OTHER -> [w EXCEPT !.ret = FALSE]

gpsHandleNMEA_wrong(w) ==
    IF w.gs.state = "RECEIVING_DATA"
    THEN CHOOSE r \in {gpsHandlePhase(d) : d \in {gpsReceiveData(w)}} : TRUE
    ELSE gpsHandlePhase(w)

\* bool hasNewData = gpsReceiveData(); switch (gpsState.state) ...
gpsHandleNMEA(w) ==
    CHOOSE r \in {gpsHandlePhase(d) : d \in {gpsReceiveData(w)}} : TRUE


----------------------------------------------------------------------------
(* The driver under its scheduler: gpsHandleNMEA is called once per tick;  *)
(* between ticks time passes, the transmit buffer drains and bytes arrive. *)

TimeStep == 150
MaxElapsed == 300
RxChunks == 1

\* what the receiver sends while the driver runs: one valid fix-data sentence
RxStream == Library[1].bytes

RxChunk(k) ==
    SubSeq(RxStream, (((k - 1) * Len(RxStream)) \div RxChunks) + 1,
           (k * Len(RxStream)) \div RxChunks)

World ==
    [gs |-> gpsState, cfg |-> gpsConfig, now |-> now, port |-> port, ev |-> <<>>,
     p |-> nmea, sol |-> gpsSol, stats |-> gpsStats, fed |-> <<>>, snd |-> noSender,
     ret |-> FALSE]

IsWrite(e) == e.op = "write"

IsPrint(e) == e.op = "print"

IsBaud(e) == e.op = "baud"

\* the bytes of the serialWrite calls among the events ev, in order
Written(ev) ==
    LET ws == SelectSeq(ev, IsWrite)
    IN  [i \in 1..Len(ws) |-> ws[i].bytes[1]]

\* the strings of the serialPrint calls among the events ev, in order
Printed(ev) ==
    LET ps == SelectSeq(ev, IsPrint)
    IN  [i \in 1..Len(ps) |-> ps[i].bytes]

\* the arguments of the serialSetBaudRate calls among the events ev, in order
BaudsSet(ev) ==
    LET bs == SelectSeq(ev, IsBaud)
    IN  [i \in 1..Len(bs) |-> bs[i].bytes[1]]

\* the commands a tick in CONFIGURE has put on the port: each string it printed, and
\* the bytes written for a buffer once the sender reports it complete
SentBy(r) ==
    IF gpsState.state # "CONFIGURE" THEN <<>>
    ELSE IF r.snd.called /\ r.snd.ret THEN <<tick.cmd>>
    ELSE Printed(r.ev)

DriverInit ==
    /\ nmea = nmea0
    /\ gpsSol = gpsSol0
    /\ gpsStats = gpsStats0
    /\ \E ab \in BOOLEAN, ac \in BOOLEAN, pv \in {"NMEA", "NMEA_PSRF"},
          bi \in {0, GPS_BAUDRATE_COUNT - 1}, hp \in BOOLEAN :
          /\ hp \/ (~ab /\ ~ac)
          /\ ab \/ bi = 0
          /\ gpsConfig = [autoBaud |-> ab, autoConfig |-> ac, provider |-> pv]
          /\ gpsState = [gpsState0 EXCEPT !.baudrateIndex = bi, !.hasPort = hp]
    /\ now = 0
    /\ port = port0
    /\ inp = inp0
    /\ obs = obs0
    /\ tick = tick0
    /\ grab = grab0

Tick ==
    \E r \in {gpsHandleNMEA(World)} :
    LET w == Written(r.ev)
    IN  /\ gpsState' = r.gs
        /\ port' = r.port
        /\ nmea' = r.p
        /\ gpsSol' = r.sol
        /\ gpsStats' = r.stats
        /\ tick' = [tick EXCEPT !.n = 1 - @, !.events = r.ev, !.fed = r.fed,
                                !.sender = r.snd, !.result = r.ret,
                                !.sent = @ \o SentBy(r),
                                !.bauds = @ \o BaudsSet(r.ev),
                                !.cmd = IF r.snd.called /\ ~r.snd.ret THEN @ \o w
                                        ELSE IF r.snd.called THEN <<>> ELSE @]
        /\ UNCHANGED <<gpsConfig, now, inp, obs, grab>>

\* the UART clocks bytes out
Drain ==
    /\ port.txUsed > 0
    /\ \E k \in 1..port.txUsed : port' = [port EXCEPT !.txUsed = @ - k]
    /\ UNCHANGED <<nmea, gpsSol, gpsStats, gpsState, gpsConfig, now, inp, obs, tick, grab>>

\* millis() moves on
Advance ==
    /\ now - gpsState.lastStateSwitchMs < MaxElapsed
    /\ gpsState.state # "RECEIVING_DATA"
    /\ now' = now + TimeStep
    /\ UNCHANGED <<nmea, gpsSol, gpsStats, gpsState, gpsConfig, port, inp, obs, tick, grab>>

\* the receiver's next bytes reach the receive buffer
Arrive ==
    /\ gpsState.hasPort
    /\ tick.arrived < RxChunks
    /\ port' = [port EXCEPT !.rx = @ \o RxChunk(tick.arrived + 1)]
    /\ tick' = [tick EXCEPT !.arrived = @ + 1]
    /\ UNCHANGED <<nmea, gpsSol, gpsStats, gpsState, gpsConfig, now, inp, obs, grab>>

DriverNext == Tick \/ Drain \/ Advance \/ Arrive

DriverSpec == DriverInit /\ [][DriverNext]_vars

----------------------------------------------------------------------------
(* Properties of the driver *)

Rank(st) ==
    CASE st = "INITIALIZING" -> 0
      [] st = "CHANGE_BAUD" -> 1
      [] st \in {"CHECK_VERSION", "CONFIGURE"} -> 2
      [] st = "RECEIVING_DATA" -> 3

\* this step is a call of gpsHandleNMEA
IsTick == tick'.n # tick.n

\* no serialWrite and no serialPrint among the events
NoTransportWrite(ev) == \A i \in 1..Len(ev) : ev[i].op \notin {"write", "print"}

Elapsed == now - gpsState.lastStateSwitchMs

\* C6: the phase never moves to an earlier one; a tick in INITIALIZING always ends in
\* CHANGE_BAUD; once in RECEIVING_DATA the phase stays and no tick writes to the port
C6_PhaseOnlyForward ==
    [][/\ Rank(gpsState'.state) >= Rank(gpsState.state)
       /\ (IsTick /\ gpsState.state = "INITIALIZING") => gpsState'.state = "CHANGE_BAUD"
       /\ gpsState.state = "RECEIVING_DATA" =>
             /\ gpsState'.state = "RECEIVING_DATA"
             /\ IsTick => NoTransportWrite(tick'.events)]_vars

\* a tick ran in RECEIVING_DATA and reported a frame, after all six baud candidates
\* and the whole configuration sequence
C6_Witness ==
    /\ gpsState.state = "RECEIVING_DATA"
    /\ gpsConfig.autoBaud /\ gpsConfig.autoConfig /\ gpsConfig.provider = "NMEA"
    /\ gpsState.autoBaudrateIndex = GPS_BAUDRATE_COUNT
    /\ tick.result

Min(a, b) == IF a < b THEN a ELSE b

\* C8: a call of the sender at cursor pos with free bytes of room writes
\* buf[pos .. pos + min(free, size - pos) - 1] in order and nothing else; with no room
\* it changes nothing; it reports completion exactly when every byte was pushed before
\* the call and the transmit buffer is empty, and then the cursor is zero; across the
\* calls the bytes written are the first cursor bytes of the buffer, and all of it at
\* completion
C8_SenderWritesBufferOnce ==
    [][(IsTick /\ tick'.sender.called) =>
          LET buf == tick'.sender.buf
              pos == gpsState.autoConfigPosition
              free == serialTxBytesFree(port)
              n == Min(free, Len(buf) - pos)
              done == pos = Len(buf) /\ isSerialTransmitBufferEmpty(port)
          IN  /\ Written(tick'.events) = SubSeq(buf, pos + 1, pos + n)
              /\ free = 0 => /\ gpsState' = gpsState
                             /\ port'.txUsed = port.txUsed
                             /\ ~tick'.sender.ret
              /\ tick'.sender.ret <=> done
              /\ done => /\ gpsState'.autoConfigPosition = 0
                         /\ gpsState'.autoConfigStep = gpsState.autoConfigStep + 1
                         /\ tick.cmd = buf
              /\ ~done => /\ gpsState'.autoConfigPosition = pos + n
                          /\ gpsState'.autoConfigStep = gpsState.autoConfigStep
                          /\ tick'.cmd = SubSeq(buf, 1, pos + n)]_vars

\* the second command of the MTK sequence has just been reported complete
C8_Witness ==
    /\ tick.sender.called /\ tick.sender.ret
    /\ tick.sender.buf = mtkInit_UPDATERATE_5Hz
    /\ gpsState.autoConfigPosition = 0
    /\ gpsState.autoConfigStep = 3
    /\ gpsState.state = "CONFIGURE"

\* C9: with a port, a tick in any phase reads every waiting byte, in arrival order
\* and before anything else it does to the port, and leaves none waiting; once the
\* whole sentence has arrived and a tick has run, the sentence is committed
C9_DrainsBeforePhaseLogic ==
    [][(IsTick /\ gpsState.hasPort) =>
          LET rx == port.rx
              ev == tick'.events
          IN  /\ port'.rx = <<>>
              /\ tick'.fed = rx
              /\ Len(ev) >= Len(rx)
              /\ \A i \in 1..Len(ev) :
                    IF i <= Len(rx) THEN ev[i] = Ev("read", <<rx[i]>>, "")
                    ELSE ev[i].op # "read"
              /\ tick.arrived = RxChunks =>
                    /\ gpsStats'.packetCount = 1
                    /\ gpsStats'.errors = 0
                    /\ gpsSol'.numSat = 8
                    /\ gpsSol'.fixType = GPS_FIX_3D
                    /\ gpsSol'.lat = 481173000]_vars

\* the sentence was consumed and committed by a tick that was in the middle of
\* transmitting a configuration command
C9_Witness ==
    /\ gpsState.state = "CONFIGURE"
    /\ gpsState.autoConfigPosition > 0
    /\ tick.fed = RxStream
    /\ tick.sender.called
    /\ gpsStats.packetCount = 1
    /\ gpsSol.numSat = 8
    /\ gpsSol.lat = 481173000

----------------------------------------------------------------------------
(* The two sequencers on their own: the driver with a port and nothing     *)
(* arriving from the receiver, the clock moving in steps that reach both   *)
(* dwell times exactly.                                                    *)

SeqStep == 100

SequencerInit ==
    /\ nmea = nmea0
    /\ gpsSol = gpsSol0
    /\ gpsStats = gpsStats0
    /\ \E ab \in BOOLEAN, ac \in BOOLEAN, pv \in {"NMEA", "NMEA_PSRF"},
          bi \in {0, GPS_BAUDRATE_COUNT - 1} :
          /\ ab \/ bi = 0
          /\ gpsConfig = [autoBaud |-> ab, autoConfig |-> ac, provider |-> pv]
          /\ gpsState = [gpsState0 EXCEPT !.baudrateIndex = bi]
    /\ now = 0
    /\ port = port0
    /\ inp = inp0
    /\ obs = obs0
    /\ tick = tick0
    /\ grab = grab0

\* millis() moves on
SeqAdvance ==
    /\ now - gpsState.lastStateSwitchMs < MaxElapsed
    /\ gpsState.state # "RECEIVING_DATA"
    /\ now' = now + SeqStep
    /\ UNCHANGED <<nmea, gpsSol, gpsStats, gpsState, gpsConfig, port, inp, obs, tick, grab>>

SequencerNext == Tick \/ Drain \/ SeqAdvance

SequencerSpec == SequencerInit /\ [][SequencerNext]_vars

\* the scheduler keeps calling gpsHandleNMEA, the UART keeps clocking bytes out and
\* the clock keeps running
SequencerFairSpec ==
    SequencerSpec /\ WF_vars(Tick) /\ WF_vars(Drain) /\ WF_vars(SeqAdvance)

----------------------------------------------------------------------------
(* Claims about the configuration and baud sequencers                      *)

IsNul(b) == b = ChNul

NotNul(b) == ~IsNul(b)

\* a command as the receiver reads it: its bytes without the C string terminator
OnWire(bytes) == SelectSeq(bytes, NotNul)

\* how many of the commands sent are the command str
TimesSent(sent, str) == Cardinality({i \in 1..Len(sent) : OnWire(sent[i]) = str})

\* the commands of the provider's configuration sequence
ConfigCommands(pv) ==
    IF pv = "NMEA_PSRF" THEN {srfInitStr_UPDATERATE_5Hz}
    ELSE {mtkInitStr_REPORTRATE_5Hz, mtkInitStr_UPDATERATE_5Hz}

\* C11: during a run of the configuration sequencer each command of the provider is
\* put on the transport at most once, and exactly once by the time the driver is in
\* RECEIVING_DATA: never once from the binary buffer and again from the string.
C11_OneRepresentationSent ==
    gpsConfig.autoConfig =>
        \A c \in ConfigCommands(gpsConfig.provider) :
            /\ TimesSent(tick.sent, c) <= 1
            /\ gpsState.state = "RECEIVING_DATA" => TimesSent(tick.sent, c) = 1

\* gpsSetState was called among the events
SetsState(ev) == \E i \in 1..Len(ev) : ev[i].op = "state"

ConfigSteps(pv) ==
    IF pv = "NMEA_PSRF" THEN <<srfInit_UPDATERATE_5Hz>>
    ELSE <<mtkInit_REPORTRATE_5Hz, mtkInitStr_REPORTRATE_5Hz,
           mtkInit_UPDATERATE_5Hz, mtkInitStr_UPDATERATE_5Hz>>

\* C13: with auto-configuration on, the clock advancing and the port draining, a
\* driver in CONFIGURE at step 0 eventually is in RECEIVING_DATA; while it is in
\* CONFIGURE the step index never decreases and rises by one at a time, the steps
\* completed so far are the first ones of the provider's list, each done once and in
\* order (report rate before update rate; the single update-rate step of the second
\* variant), and on arrival in RECEIVING_DATA the whole list has been done once.
C13_ConfigurationCompletes ==
    /\ (gpsConfig.autoConfig /\ gpsState.state = "CONFIGURE" /\ gpsState.autoConfigStep = 0)
          ~> (gpsState.state = "RECEIVING_DATA")
    /\ [][(gpsConfig.autoConfig /\ gpsState.state = "CONFIGURE") =>
             \/ /\ gpsState'.state = "CONFIGURE"
                /\ gpsState'.autoConfigStep \in
                      {gpsState.autoConfigStep, gpsState.autoConfigStep + 1}
             \/ /\ gpsState'.state = "RECEIVING_DATA"
                /\ gpsState.autoConfigStep = Len(ConfigSteps(gpsConfig.provider))]_vars
    /\ [](gpsConfig.autoConfig =>
            /\ gpsState.state = "CONFIGURE" =>
                  /\ gpsState.autoConfigStep <= Len(ConfigSteps(gpsConfig.provider))
                  /\ tick.sent = SubSeq(ConfigSteps(gpsConfig.provider), 1,
                                        gpsState.autoConfigStep)
            /\ gpsState.state = "RECEIVING_DATA" =>
                  tick.sent = ConfigSteps(gpsConfig.provider))

\* the first variant has arrived in RECEIVING_DATA after its four steps
C13_Witness ==
    /\ gpsConfig.autoConfig
    /\ gpsConfig.provider = "NMEA"
    /\ gpsState.state = "RECEIVING_DATA"
    /\ Len(tick.sent) = 4
    /\ tick.sent[1] = mtkInit_REPORTRATE_5Hz
    /\ tick.sent[3] = mtkInit_UPDATERATE_5Hz

\* the provider's command asking for the configured baud rate, from the variables
TargetBaudCommand ==
    IF gpsConfig.provider = "NMEA_PSRF"
    THEN srfInit_BaudData[gpsState.baudrateIndex + 1]
    ELSE mtkInit_BaudData[gpsState.baudrateIndex + 1]

\* C14: a tick in CHANGE_BAUD with auto-baud on and candidates left switches the
\* port's baud rate and prints the baud command exactly when at least
\* GPS_BAUD_CHANGE_DELAY ms have passed since the last transition and the transmit
\* buffer is empty; in every other such tick nothing is written, and the baud rate,
\* the candidate index, the phase and the timestamp stay as they were.
C14_BaudSwitchGated ==
    [][(IsTick /\ gpsState.state = "CHANGE_BAUD" /\ gpsConfig.autoBaud
               /\ gpsState.autoBaudrateIndex < GPS_BAUDRATE_COUNT) =>
          IF Elapsed >= GPS_BAUD_CHANGE_DELAY /\ isSerialTransmitBufferEmpty(port)
          THEN /\ BaudsSet(tick'.events) = <<gpsState.autoBaudrateIndex>>
               /\ Printed(tick'.events) = <<TargetBaudCommand>>
               /\ port'.baud = gpsState.autoBaudrateIndex
          ELSE /\ NoTransportWrite(tick'.events)
               /\ BaudsSet(tick'.events) = <<>>
               /\ port' = port
               /\ gpsState' = gpsState]_vars

\* the first candidate was set by a tick that came exactly GPS_BAUD_CHANGE_DELAY ms
\* after CHANGE_BAUD was entered
C14_Witness ==
    /\ gpsConfig.autoBaud
    /\ gpsState.state = "CHANGE_BAUD"
    /\ gpsState.autoBaudrateIndex = 1
    /\ tick.bauds = <<0>>
    /\ gpsState.lastStateSwitchMs = GPS_BAUD_CHANGE_DELAY
    /\ port.txUsed > 0

\* the first n candidates of the list, in order
Candidates(n) == [i \in 1..n |-> i - 1]

\* C15: with auto-baud on, the baud rates set so far are always the first
\* autoBaudrateIndex candidates of the list, each once and in order; a tick that sets
\* one sets the candidate at the index, prints once the provider's command for the
\* configured rate (baudrateIndex), raises the index by one and re-enters CHANGE_BAUD
\* at the current time; CHANGE_BAUD is left only when the index has passed the last
\* candidate, by a tick that sets no baud rate, and none is set in a later phase;
\* with the clock advancing and the port draining all candidates are tried and
\* CHANGE_BAUD is left.
C15_CandidatesInOrder ==
    /\ [](gpsConfig.autoBaud =>
            /\ gpsState.autoBaudrateIndex <= GPS_BAUDRATE_COUNT
            /\ tick.bauds = Candidates(gpsState.autoBaudrateIndex)
            /\ Rank(gpsState.state) > Rank("CHANGE_BAUD") =>
                  gpsState.autoBaudrateIndex = GPS_BAUDRATE_COUNT)
    /\ [][(IsTick /\ gpsConfig.autoBaud) =>
             IF BaudsSet(tick'.events) # <<>>
             THEN /\ gpsState.state = "CHANGE_BAUD"
                  /\ tick'.events = <<Ev("baud", <<gpsState.autoBaudrateIndex>>, ""),
                                      Ev("print", TargetBaudCommand, ""),
                                      Ev("state", <<>>, "CHANGE_BAUD")>>
                  /\ port'.baud = gpsState.autoBaudrateIndex
                  /\ gpsState'.autoBaudrateIndex = gpsState.autoBaudrateIndex + 1
                  /\ gpsState'.state = "CHANGE_BAUD"
                  /\ gpsState'.lastStateSwitchMs = now
                  /\ gpsState'.baudrateIndex = gpsState.baudrateIndex
             ELSE /\ gpsState'.autoBaudrateIndex = gpsState.autoBaudrateIndex
                  /\ port'.baud = port.baud
                  /\ (gpsState.state = "CHANGE_BAUD" /\ gpsState'.state # "CHANGE_BAUD") =>
                        /\ gpsState.autoBaudrateIndex = GPS_BAUDRATE_COUNT
                        /\ NoTransportWrite(tick'.events)]_vars
    /\ (gpsConfig.autoBaud /\ gpsState.state = "CHANGE_BAUD")
          ~> (tick.bauds = Candidates(GPS_BAUDRATE_COUNT) /\ gpsState.state # "CHANGE_BAUD")

\* all six candidates were tried with the last rate of the list as the configured
\* one, and the driver has gone on to RECEIVING_DATA
C15_Witness ==
    /\ gpsConfig.autoBaud
    /\ gpsState.baudrateIndex = GPS_BAUDRATE_COUNT - 1
    /\ tick.bauds = Candidates(GPS_BAUDRATE_COUNT)
    /\ port.baud = GPS_BAUDRATE_COUNT - 1
    /\ gpsState.state = "RECEIVING_DATA"

\* C16: with auto-configuration on, a tick in CONFIGURE that comes less than
\* GPS_NMEA_CONFIG_DELAY ms after the last transition does nothing to the port and
\* leaves step index, cursor, phase and timestamp as they were; so every tick of the
\* sequencer that writes, prints or changes phase comes at least that long after the
\* previous step was completed (the last transition).
C16_ConfigStepsGated ==
    [][(IsTick /\ gpsConfig.autoConfig
               /\ gpsState.state \in {"CHECK_VERSION", "CONFIGURE"}) =>
          /\ Elapsed < GPS_NMEA_CONFIG_DELAY =>
                /\ tick'.events = <<>>
                /\ ~tick'.sender.called
                /\ gpsState' = gpsState
                /\ port' = port
          /\ (tick'.events # <<>> \/ gpsState' # gpsState) =>
                now >= gpsState.lastStateSwitchMs + GPS_NMEA_CONFIG_DELAY]_vars

\* without baud negotiation the first variant arrives in RECEIVING_DATA five dwell
\* times after start-up: four steps and the final move, none of them early
C16_Witness ==
    /\ gpsConfig.autoConfig
    /\ ~gpsConfig.autoBaud
    /\ gpsConfig.provider = "NMEA"
    /\ gpsState.state = "RECEIVING_DATA"
    /\ gpsState.lastStateSwitchMs = 5 * GPS_NMEA_CONFIG_DELAY
    /\ Len(tick.sent) = 4

----------------------------------------------------------------------------
(* Further claims about the sentence parser                                *)

\* this step feeds the byte c to the parser
Feeds(c) == inp'.id = inp.id /\ inp'.pos = inp.pos + 1 /\ Cur[inp'.pos] = c

\* C17: right after the parser has consumed a '$', in whatever state it was, the
\* field index, the output cursor and the running checksum are zero, the
\* sentence-type tag is undetermined and the parser is not in checksum-capture mode.
C17_StartResetsParser ==
    [][Feeds(ChDollar) =>
          /\ nmea'.param = 0
          /\ nmea'.offset = 0
          /\ nmea'.parity = 0
          /\ nmea'.gps_frame = NO_FRAME
          /\ nmea'.checksum_param = 0]_vars

\* C18: a complete sentence with a correct checksum whose identifier is none of
\* GPGGA, GNGGA, GPRMC, GNRMC dispatches no field: on every byte of it PendingFix and
\* NavigationSolution are as before the sentence and no frame-ready is given; when it
\* is complete the checksum-error counter is unchanged and the valid-packet counter
\* is one higher.
C18_UnknownIdentifierIgnored ==
    (inp.id # 0 /\ Library[inp.id].kind = "OTHER" /\ Library[inp.id].csOK) =>
        /\ nmea.gps_Msg = obs.preMsg
        /\ gpsSol = obs.preSol
        /\ obs.frames = 0
        /\ Complete =>
              /\ gpsStats.errors = obs.preStats.errors
              /\ gpsStats.packetCount = obs.preStats.packetCount + 1

\* the sentence has a field longer than the buffer keeps
HasLongField(L) == \E k \in 1..Len(L.fields) : Len(L.fields[k]) > NMEA_BUFFER_SIZE - 1

\* C19: a sentence with a field of more than 15 characters whose checksum digits
\* are the exclusive-or of all its bytes between '$' and '*' fails the parser's
\* checksum comparison: it adds one to the checksum-error counter, leaves the
\* valid-packet counter as it was, gives no frame-ready and commits nothing.
C19_DroppedCharactersFailChecksum ==
    (Complete /\ HasLongField(Library[inp.id]) /\ Library[inp.id].csOK) =>
        /\ gpsStats.errors = obs.preStats.errors + 1
        /\ gpsStats.packetCount = obs.preStats.packetCount
        /\ obs.frames = 0
        /\ gpsSol = obs.preSol

----------------------------------------------------------------------------
(* The bounds of the field buffer                                          *)

\* C20: decoding a field the parser can hold (at most 15 characters and the
\* terminator) with the precisions the parser uses (0 or 1 fractional digits)
\* writes only at indices 0..15 of the buffer: every byte of memory after the 16-byte
\* buffer is as it was before the call.
C20_WritesWithinBuffer ==
    (grab.done /\ GrabLen <= NMEA_BUFFER_SIZE - 1 /\ grab.mult \in {0, 1}) =>
        \A k \in NMEA_BUFFER_SIZE .. (GrabCap - 1) : grab.src[k] = grab.buf[k]

====
